---- MODULE Spec2Model ----
(***************************************************************************)
(* A model of meteo_api.meteo_client.MeteoClient:                          *)
(*   - the JSON-to-table normalisation (_find_record_path, _flatten_meta,  *)
(*     _set_timestamp_index, _json_to_dataframe),                          *)
(*   - the single-shot GET methods,                                        *)
(*   - the date-range helper get_station_historical_observations_range.    *)
(***************************************************************************)
EXTENDS Integers, Sequences, FiniteSets, TLC

VARIABLES
    op,           \* SpecJson/SpecTs/Spec: which operation the behaviour runs
    pc,           \* position inside the running operation
    json_data,    \* _json_to_dataframe: the parsed body
    record_path,  \* _json_to_dataframe: the caller's record_path (None or a str)
    time_zone,    \* time_zone argument (Vilnius or None)
    rp,           \* _json_to_dataframe: result of _find_record_path
    meta,         \* _json_to_dataframe: result of _flatten_meta
    df,           \* the table being built / passed to _set_timestamp_index
    result,       \* what the operation returned or raised
    method,       \* Spec: the client method called
    start_date,   \* range helper: start_date argument, <<day, hour>>
    end_date,     \* range helper: end_date argument, <<day, hour>>
    current_date, \* range helper: local current_date
    all_dfs,      \* range helper: local all_dfs
    events,       \* the calls made on the session and on time.sleep, in order
    fetched,      \* per date, the table its successful fetch returned
    budget429     \* how many more 429 answers the server may still give

vars == <<op, pc, json_data, record_path, time_zone, rp, meta, df, result,
          method, start_date, end_date, current_date, all_dfs, events,
          fetched, budget429>>

-----------------------------------------------------------------------------
(* Python values.  A JSON value is a tagged tuple; a dict is the sequence   *)
(* of its <<key, value>> items in iteration (insertion) order.              *)

None == <<>>
Some(s) == <<s>>

JNull == <<"null">>
JNum(n) == <<"num", n>>
JStr(s) == <<"str", s>>
JList(items) == <<"list", items>>
JDict(items) == <<"dict", items>>

IsList(v) == v[1] = "list"
IsDict(v) == v[1] = "dict"
Items(v) == v[2]

Range(s) == {s[i] : i \in DOMAIN s}

DictKeys(d) == [i \in DOMAIN Items(d) |-> Items(d)[i][1]]
HasKey(d, k) == \E i \in DOMAIN Items(d) : Items(d)[i][1] = k
DictGet(d, k) == Items(d)[CHOOSE i \in DOMAIN Items(d) : Items(d)[i][1] = k][2]

\* d[k] = v on a Python dict: an existing key keeps its position.
DictSet(d, k, v) ==
    IF HasKey(d, k)
    THEN JDict([i \in DOMAIN Items(d) |->
                  IF Items(d)[i][1] = k THEN <<k, v>> ELSE Items(d)[i]])
    ELSE JDict(Append(Items(d), <<k, v>>))

\* Truthiness of a str | None.
Truthy(o) == o # None /\ o[1] # ""

-----------------------------------------------------------------------------
(* _find_record_path                                                        *)

\* isinstance(val, list) and val and isinstance(val[0], dict)
IsRecordList(val) ==
    /\ IsList(val)
    /\ Len(Items(val)) > 0
    /\ IsDict(Items(val)[1])

find_record_path(data, record_path_arg) ==
    IF /\ Truthy(record_path_arg)
       /\ HasKey(data, record_path_arg[1])
       /\ IsRecordList(DictGet(data, record_path_arg[1]))
    THEN record_path_arg
    ELSE IF \E i \in DOMAIN Items(data) : IsRecordList(Items(data)[i][2])
         THEN LET first == CHOOSE i \in DOMAIN Items(data) :
                              /\ IsRecordList(Items(data)[i][2])
                              /\ \A j \in 1..(i-1) :
                                     ~IsRecordList(Items(data)[j][2])
              IN  Some(Items(data)[first][1])
         ELSE None

-----------------------------------------------------------------------------
(* _flatten_meta                                                            *)

\* The inner loop over val.items() of a dict-valued key.
RECURSIVE FlattenSub(_, _, _, _)
FlattenSub(flat, key, sub, i) ==
    IF i > Len(sub) THEN flat
    ELSE FlattenSub(DictSet(flat, key \o "_" \o sub[i][1], sub[i][2]),
                    key, sub, i + 1)

\* The outer loop over data.items().
RECURSIVE FlattenFrom(_, _, _, _)
FlattenFrom(flat, data, rpath, i) ==
    IF i > Len(Items(data)) THEN flat
    ELSE LET key == Items(data)[i][1]
             val == Items(data)[i][2]
         IN  IF key = rpath
             THEN FlattenFrom(flat, data, rpath, i + 1)
             ELSE IF IsDict(val)
                  THEN FlattenFrom(FlattenSub(flat, key, Items(val), 1),
                                   data, rpath, i + 1)
                  ELSE FlattenFrom(DictSet(flat, key, val), data, rpath, i + 1)

flatten_meta(data, rpath) == FlattenFrom(JDict(<<>>), data, rpath, 1)

-----------------------------------------------------------------------------
(* pandas tables.  A DataFrame is its ordered column labels, its index      *)
(* labels, the index name and its rows (one function from column label to   *)
(* cell per row).  A cell is a JSON value, NaN, NaT or a timestamp          *)
(* <<"ts", instant, tz>>.  A call that raises yields [exc |-> its type].    *)

NaN == <<"NaN">>
NaT == <<"NaT">>
Ts(instant, tz) == <<"ts", instant, tz>>

Raised(e) == [exc |-> e]
IsRaised(r) == "exc" \in DOMAIN r

RangeIndex(n) == [i \in 1..n |-> JNum(i - 1)]

\* pd.DataFrame()
EmptyFrame == [cols |-> <<>>, index |-> <<>>, iname |-> None, rows |-> <<>>]

\* DataFrame.empty: some axis has length 0.
IsEmpty(t) == Len(t.cols) = 0 \/ Len(t.index) = 0

\* Column labels of a list of dicts: the keys in order of first appearance.
RECURSIVE KeysFrom(_, _, _)
KeysFrom(acc, keys, i) ==
    IF i > Len(keys) THEN acc
    ELSE KeysFrom(IF keys[i] \in Range(acc) THEN acc ELSE Append(acc, keys[i]),
                  keys, i + 1)

RECURSIVE UnionKeys(_, _, _)
UnionKeys(acc, dicts, i) ==
    IF i > Len(dicts) THEN acc
    ELSE UnionKeys(KeysFrom(acc, DictKeys(dicts[i]), 1), dicts, i + 1)

\* pd.DataFrame(list of dicts): a missing key is NaN.
FrameOfRecords(dicts) ==
    LET cols == UnionKeys(<<>>, dicts, 1)
    IN  [cols  |-> cols,
         index |-> RangeIndex(Len(dicts)),
         iname |-> None,
         rows  |-> [i \in DOMAIN dicts |->
                      [c \in Range(cols) |->
                          IF HasKey(dicts[i], c) THEN DictGet(dicts[i], c)
                          ELSE NaN]]]

\* pd.DataFrame(data) for a list: no rows for [], one row per dict when the
\* first item is a dict (a later non-dict item has no keys() and raises),
\* otherwise a single column labelled 0.
DataFrameOfList(items) ==
    IF Len(items) = 0 THEN EmptyFrame
    ELSE IF IsDict(items[1])
         THEN IF \A i \in DOMAIN items : IsDict(items[i])
              THEN FrameOfRecords(items)
              ELSE Raised("AttributeError")
         ELSE [cols  |-> <<"0">>,
               index |-> RangeIndex(Len(items)),
               iname |-> None,
               rows  |-> [i \in DOMAIN items |-> [c \in {"0"} |-> items[i]]]]

\* pd.DataFrame([json_data]) for a dict: one row, one column per key.
DataFrameOfDict(d) ==
    [cols  |-> DictKeys(d),
     index |-> RangeIndex(1),
     iname |-> None,
     rows  |-> << [c \in Range(DictKeys(d)) |-> DictGet(d, c)] >>]

\* The column json_normalize builds for one meta value over n rows:
\* np.array([v], dtype=object).repeat([n]) flattens a list value, so only
\* a one-item list still has n entries.
MetaColumnOk(v) == IsList(v) => Len(Items(v)) = 1
MetaCell(v) == IF IsList(v) THEN Items(v)[1] ELSE v

RECURSIVE AttachMeta(_, _, _, _)
AttachMeta(t, data, keys, i) ==
    IF i > Len(keys) THEN t
    ELSE LET k == keys[i]
             v == DictGet(data, k)
         IN  IF k \in Range(t.cols) THEN Raised("ValueError")
             ELSE IF ~MetaColumnOk(v) THEN Raised("ValueError")
             ELSE AttachMeta(
                    [t EXCEPT !.cols = Append(t.cols, k),
                              !.rows = [r \in DOMAIN t.rows |->
                                  [c \in Range(t.cols) \cup {k} |->
                                      IF c = k THEN MetaCell(v)
                                      ELSE t.rows[r][c]]]],
                    data, keys, i + 1)

\* pd.json_normalize(data, record_path=rpath, meta=keys) for flat records.
json_normalize(data, rpath, keys) ==
    LET recs == DataFrameOfList(Items(DictGet(data, rpath)))
    IN  IF IsRaised(recs) THEN recs ELSE AttachMeta(recs, data, keys, 1)

-----------------------------------------------------------------------------
(* _set_timestamp_index                                                     *)

Vilnius == "Europe/Vilnius"

\* col.endswith("TimeUtc"), over the labels whose stem is one of TimeStems.
TimeStems == {"", "observation", "forecast", "forecastCreation"}
EndsWithTimeUtc(col) == \E stem \in TimeStems : col = stem \o "TimeUtc"

\* [col for col in df.columns if col.endswith("TimeUtc")]
RECURSIVE TimeColumnsFrom(_, _)
TimeColumnsFrom(cols, i) ==
    IF i > Len(cols) THEN <<>>
    ELSE (IF EndsWithTimeUtc(cols[i]) THEN <<cols[i]>> ELSE <<>>)
         \o TimeColumnsFrom(cols, i + 1)

time_columns(t) == TimeColumnsFrom(t.cols, 1)

\* date.isoformat() of the days of January 2024 the model uses.
DayTexts == <<"2024-01-01", "2024-01-02", "2024-01-03", "2024-01-04",
              "2024-01-05">>
isoformat(d) == DayTexts[d]

\* pd.to_datetime(cell, errors="coerce") on a text cell: the instant (here
\* the day of January 2024) the text denotes, with or without a midnight
\* time of day; NaT (0 here) for text that is no date and for a missing
\* value.
ParseDay(s) ==
    IF \E d \in DOMAIN DayTexts : s \in {DayTexts[d], DayTexts[d] \o " 00:00:00"}
    THEN CHOOSE d \in DOMAIN DayTexts :
            s \in {DayTexts[d], DayTexts[d] \o " 00:00:00"}
    ELSE 0

to_datetime(cell) ==
    IF cell[1] = "str" /\ ParseDay(cell[2]) # 0
    THEN Ts(ParseDay(cell[2]), "naive")
    ELSE NaT

\* .dt.tz_localize("UTC") and .dt.tz_convert(time_zone): the instant stays.
tz_localize(cell, tz) == IF cell = NaT THEN NaT ELSE Ts(cell[2], tz)
tz_convert(cell, tz) == IF cell = NaT THEN NaT ELSE Ts(cell[2], tz)

\* The loop body over one time column.
ConvertCell(cell, tz) ==
    LET utc == tz_localize(to_datetime(cell), "UTC")
    IN  IF tz # None THEN tz_convert(utc, tz[1]) ELSE utc

ConvertColumns(t, tcols, tz) ==
    [t EXCEPT !.rows = [r \in DOMAIN t.rows |->
        [c \in Range(t.cols) |->
            IF c \in Range(tcols) THEN ConvertCell(t.rows[r][c], tz)
            ELSE t.rows[r][c]]]]

RECURSIVE Without(_, _)
Without(cols, c) ==
    IF cols = <<>> THEN <<>>
    ELSE (IF Head(cols) = c THEN <<>> ELSE <<Head(cols)>>) \o Without(Tail(cols), c)

\* df.set_index(col).rename_axis("timestamp")
set_index(t, col) ==
    [cols  |-> Without(t.cols, col),
     index |-> [r \in DOMAIN t.rows |-> t.rows[r][col]],
     iname |-> Some("timestamp"),
     rows  |-> [r \in DOMAIN t.rows |->
                  [c \in Range(t.cols) \ {col} |-> t.rows[r][c]]]]

\* The order sort_index puts index labels in: by instant, NaT last.
IndexLeq(a, b) == b = NaT \/ (a # NaT /\ a[2] <= b[2])

\* sort_index(): the rows in index order.  The default sort is not stable,
\* so rows with equal labels may come out in any order.
SortOrders(t) ==
    {p \in [DOMAIN t.index -> DOMAIN t.index] :
        /\ \A i, j \in DOMAIN p : i # j => p[i] # p[j]
        /\ \A i \in DOMAIN p : i < Len(p) => IndexLeq(t.index[p[i]], t.index[p[i+1]])}

Reorder(t, p) ==
    [t EXCEPT !.index = [i \in DOMAIN p |-> t.index[p[i]]],
              !.rows  = [i \in DOMAIN p |-> t.rows[p[i]]]]

sort_index(t) == {Reorder(t, p) : p \in SortOrders(t)}

\* _set_timestamp_index without its sort_index().
set_timestamp_index_unsorted(t, tz) ==
    LET tcols == time_columns(t)
    IN  IF tcols = <<>> THEN {t}
        ELSE {set_index(ConvertColumns(t, tcols, tz), tcols[1])}

\* The tables _set_timestamp_index(df, time_zone) may return.
set_timestamp_index(t, tz) ==
    LET tcols == time_columns(t)
    IN  IF tcols = <<>> THEN {t}
        ELSE sort_index(set_index(ConvertColumns(t, tcols, tz), tcols[1]))

-----------------------------------------------------------------------------
(* _json_to_dataframe: the outcomes (a table, or an exception raised by a   *)
(* pandas call) of one call.                                                *)

\* {**meta, rp: records}
MergedData(m, rpath, records) == DictSet(m, rpath, records)

NormalizedFrame(data, rpath) ==
    LET m == flatten_meta(data, rpath)
    IN  json_normalize(MergedData(m, rpath, DictGet(data, rpath)), rpath, DictKeys(m))

json_to_dataframe(body, record_path_arg, tz) ==
    IF IsList(body) THEN {DataFrameOfList(Items(body))}
    ELSE IF IsDict(body)
         THEN LET found == find_record_path(body, record_path_arg)
              IN  IF Truthy(found)
                  THEN LET t == NormalizedFrame(body, found[1])
                       IN  IF IsRaised(t) THEN {t}
                           ELSE set_timestamp_index(t, tz)
                  ELSE {DataFrameOfDict(body)}
         ELSE {EmptyFrame}

-----------------------------------------------------------------------------
(* Bounded inputs.                                                          *)

MaxItems == 2   \* items in the list under "observations"
MaxKeys == 2    \* keys of a dict body
MaxRows == 2    \* rows of a table handed to _set_timestamp_index

SeqsUpTo(S, n) == UNION {[1..k -> S] : k \in 0..n}

RecA == JDict(<< <<"observationTimeUtc", JStr("2024-01-02")>>, <<"v", JNum(1)>> >>)
RecB == JDict(<< <<"observationTimeUtc", JStr("2024-01-01 00:00:00")>> >>)
RecC == JDict(<< <<"v", JNum(2)>>, <<"station_code", JStr("z")>> >>)

\* What a list in a body may hold: records, and a value that is no record.
ItemPool == {RecA, RecB, RecC, JNum(7)}

\* The values each top-level key of a dict body may carry.
ValuesOf(key) ==
    CASE key = "observations" -> {JList(l) : l \in SeqsUpTo(ItemPool, MaxItems)}
      [] key = "forecastTimestamps" ->
            {JList(<<>>), JList(<<RecC>>), JList(<<JNum(7)>>),
             JList(<< JDict(<< <<"forecastTimeUtc", JStr("n/a")>> >>) >>)}
      [] key = "" -> {JList(<<RecC>>)}
      [] key = "station" ->
            {JDict(<< <<"code", JStr("x")>> >>),
             JDict(<< <<"code", JStr("x")>>, <<"name", JNull>> >>)}
      [] key = "station_code" -> {JStr("y")}
      [] key = "forecastCreationTimeUtc" -> {JStr("2024-01-03")}

TopKeys == {"observations", "forecastTimestamps", "", "station",
            "station_code", "forecastCreationTimeUtc"}

\* Sequences of up to n items with distinct keys among keys.
RECURSIVE DictItems(_, _)
DictItems(keys, n) ==
    IF n = 0 THEN {<<>>}
    ELSE {<<>>} \cup UNION {UNION {
            {<< <<k, v>> >> \o rest : rest \in DictItems(keys \ {k}, n - 1)}
            : v \in ValuesOf(k)} : k \in keys}

\* The parsed bodies: dicts of up to n keys in any order, lists, and
\* JSON values that are neither.
DictBodies(n) == {JDict(items) : items \in DictItems(TopKeys, n)}
ListBodies == {JList(l) : l \in SeqsUpTo(ItemPool, MaxItems)}
OtherBodies == {JNull, JStr("x"), JNum(7)}
Bodies(n) == DictBodies(n) \cup ListBodies \cup OtherBodies

RecordPaths == {None, Some("observations"), Some("forecastTimestamps")}
TimeZones == {Some(Vilnius), None}

NoResult == [none |-> TRUE]

-----------------------------------------------------------------------------
(* SpecJson: one call _json_to_dataframe(json_data, record_path), stepped   *)
(* through its branches.                                                    *)

InitJson ==
    /\ op = "json_to_dataframe"
    /\ pc = "start"
    /\ json_data \in Bodies(MaxKeys)
    /\ record_path \in RecordPaths
    /\ time_zone = Some(Vilnius)
    /\ rp = None
    /\ meta = JDict(<<>>)
    /\ df = EmptyFrame
    /\ result = NoResult
    /\ method = "none"
    /\ start_date = <<0, 0>>
    /\ end_date = <<0, 0>>
    /\ current_date = 0
    /\ all_dfs = <<>>
    /\ events = <<>>
    /\ fetched = <<>>
    /\ budget429 = 0

HttpUnchanged ==
    UNCHANGED <<method, start_date, end_date, current_date, all_dfs, events,
                fetched, budget429>>

\* if isinstance(json_data, list): return pd.DataFrame(json_data)
JsonList ==
    /\ pc = "start"
    /\ IsList(json_data)
    /\ result' = DataFrameOfList(Items(json_data))
    /\ pc' = "done"
    /\ UNCHANGED <<op, json_data, record_path, time_zone, rp, meta, df>>
    /\ HttpUnchanged

\* rp = self._find_record_path(json_data, record_path)
JsonFind ==
    /\ pc = "start"
    /\ IsDict(json_data)
    /\ rp' = find_record_path(json_data, record_path)
    /\ pc' = "found"
    /\ UNCHANGED <<op, json_data, record_path, time_zone, meta, df, result>>
    /\ HttpUnchanged

\* if rp: ... meta = self._flatten_meta(json_data, rp)
JsonFlatten ==
    /\ pc = "found"
    /\ Truthy(rp)
    /\ meta' = flatten_meta(json_data, rp[1])
    /\ pc' = "flat"
    /\ UNCHANGED <<op, json_data, record_path, time_zone, rp, df, result>>
    /\ HttpUnchanged

\* df_records_and_meta = pd.json_normalize(...)
JsonNormalize ==
    /\ pc = "flat"
    /\ LET t == json_normalize(MergedData(meta, rp[1], DictGet(json_data, rp[1])),
                               rp[1], DictKeys(meta))
       IN  IF IsRaised(t)
           THEN /\ result' = t
                /\ pc' = "done"
                /\ df' = df
           ELSE /\ df' = t
                /\ pc' = "normalized"
                /\ result' = result
    /\ UNCHANGED <<op, json_data, record_path, time_zone, rp, meta>>
    /\ HttpUnchanged

\* return self._set_timestamp_index(df_records_and_meta, time_zone)
JsonSetIndex ==
    /\ pc = "normalized"
    /\ result' \in set_timestamp_index(df, time_zone)
    /\ pc' = "done"
    /\ UNCHANGED <<op, json_data, record_path, time_zone, rp, meta, df>>
    /\ HttpUnchanged

\* return pd.DataFrame([json_data])
JsonOneRow ==
    /\ pc = "found"
    /\ ~Truthy(rp)
    /\ result' = DataFrameOfDict(json_data)
    /\ pc' = "done"
    /\ UNCHANGED <<op, json_data, record_path, time_zone, rp, meta, df>>
    /\ HttpUnchanged

\* return pd.DataFrame()
JsonOther ==
    /\ pc = "start"
    /\ ~IsList(json_data)
    /\ ~IsDict(json_data)
    /\ result' = EmptyFrame
    /\ pc' = "done"
    /\ UNCHANGED <<op, json_data, record_path, time_zone, rp, meta, df>>
    /\ HttpUnchanged

NextJson ==
    \/ JsonList
    \/ JsonFind
    \/ JsonFlatten
    \/ JsonNormalize
    \/ JsonSetIndex
    \/ JsonOneRow
    \/ JsonOther

SpecJson == InitJson /\ [][NextJson]_vars

-----------------------------------------------------------------------------
(* SpecTs: one call _set_timestamp_index(df, time_zone) on a table of up   *)
(* to MaxRows rows.                                                         *)

\* The cells a column of an input table may hold.
CellsOf(col) ==
    CASE col = "observationTimeUtc" ->
            {JStr("2024-01-01"), JStr("2024-01-02"),
             JStr("2024-01-02 00:00:00"), JStr("n/a")}
      [] col = "forecastCreationTimeUtc" -> {JStr("2024-01-03"), JNull}
      [] col = "v" -> {JNum(1), JNum(2)}

ColumnLayouts ==
    {<<>>, <<"v">>, <<"observationTimeUtc">>,
     <<"observationTimeUtc", "v">>, <<"v", "observationTimeUtc">>,
     <<"forecastCreationTimeUtc", "observationTimeUtc">>,
     <<"v", "observationTimeUtc", "forecastCreationTimeUtc">>}

RowsOver(cols) == [Range(cols) -> UNION {CellsOf(c) : c \in Range(cols)}]

InputFrames(n) ==
    UNION {
      {[cols |-> cols, index |-> RangeIndex(Len(rows)), iname |-> None,
        rows |-> rows] :
          rows \in SeqsUpTo({r \in RowsOver(cols) :
                               \A c \in Range(cols) : r[c] \in CellsOf(c)},
                            n)}
      : cols \in ColumnLayouts}

InitTs ==
    /\ op = "set_timestamp_index"
    /\ pc = "start"
    /\ df \in InputFrames(MaxRows)
    /\ time_zone \in TimeZones
    /\ json_data = JNull
    /\ record_path = None
    /\ rp = None
    /\ meta = JDict(<<>>)
    /\ result = NoResult
    /\ method = "none"
    /\ start_date = <<0, 0>>
    /\ end_date = <<0, 0>>
    /\ current_date = 0
    /\ all_dfs = <<>>
    /\ events = <<>>
    /\ fetched = <<>>
    /\ budget429 = 0

\* if not time_columns: ... return df
TsNoTimeColumn ==
    /\ pc = "start"
    /\ time_columns(df) = <<>>
    /\ result' \in set_timestamp_index(df, time_zone)
    /\ pc' = "done"
    /\ UNCHANGED <<op, json_data, record_path, time_zone, rp, meta, df>>
    /\ HttpUnchanged

\* the conversion loop, then set_index(...).rename_axis(...).sort_index()
TsIndexed ==
    /\ pc = "start"
    /\ time_columns(df) # <<>>
    /\ result' \in set_timestamp_index(df, time_zone)
    /\ pc' = "done"
    /\ UNCHANGED <<op, json_data, record_path, time_zone, rp, meta, df>>
    /\ HttpUnchanged

NextTs == TsNoTimeColumn \/ TsIndexed

SpecTs == InitTs /\ [][NextTs]_vars

-----------------------------------------------------------------------------
(* pd.concat(all_dfs): the rows of the tables one after the other, over    *)
(* the union of their columns (in order of first appearance), NaN where a   *)
(* table lacks a column.                                                    *)

RECURSIVE ConcatCols(_, _, _)
ConcatCols(acc, tables, i) ==
    IF i > Len(tables) THEN acc
    ELSE ConcatCols(KeysFrom(acc, tables[i].cols, 1), tables, i + 1)

RECURSIVE ConcatRows(_, _, _)
ConcatRows(cols, tables, i) ==
    IF i > Len(tables) THEN <<>>
    ELSE [r \in DOMAIN tables[i].rows |->
            [c \in Range(cols) |->
                IF c \in Range(tables[i].cols) THEN tables[i].rows[r][c]
                ELSE NaN]]
         \o ConcatRows(cols, tables, i + 1)

RECURSIVE ConcatIndex(_, _)
ConcatIndex(tables, i) ==
    IF i > Len(tables) THEN <<>>
    ELSE tables[i].index \o ConcatIndex(tables, i + 1)

concat(tables) ==
    LET cols == ConcatCols(<<>>, tables, 1)
    IN  [cols  |-> cols,
         index |-> ConcatIndex(tables, 1),
         iname |-> IF \A i \in DOMAIN tables : tables[i].iname = tables[1].iname
                   THEN tables[1].iname ELSE None,
         rows  |-> ConcatRows(cols, tables, 1)]

-----------------------------------------------------------------------------
(* The HTTP methods.                                                        *)

BackoffMs == 5000   \* time.sleep(5)
PauseMs == 150      \* time.sleep(0.15)
RateLimited == 429

MaxDay == 2         \* days the range arguments are drawn from: 1..MaxDay
Max429 == 2         \* 429 answers the server gives during one call

SingleShotMethods ==
    {"get_place_forecast_by_type", "get_station_historical_observations",
     "get_places", "get_place_info", "get_place_forecasts", "get_stations",
     "get_station_info", "get_more_station_info"}
RangeMethod == "get_station_historical_observations_range"

PlaceCode == "vilnius"
StationCode == "vilnius-ams"

\* The path each method requests under BASE_URL.
Url(m, date) ==
    CASE m = "get_place_forecast_by_type" ->
            <<"places", PlaceCode, "forecasts", "long-term">>
      [] m = "get_station_historical_observations" ->
            <<"stations", StationCode, "observations", date>>
      [] m = "get_places" -> <<"places">>
      [] m = "get_place_info" -> <<"places", PlaceCode>>
      [] m = "get_place_forecasts" -> <<"places", PlaceCode, "forecasts">>
      [] m = "get_stations" -> <<"stations">>
      [] m = "get_station_info" -> <<"stations", StationCode>>
      [] m = "get_more_station_info" ->
            <<"stations", StationCode, "observations">>

\* The record_path each method hands to _json_to_dataframe.
RecordPathOf(m) ==
    CASE m = "get_place_forecast_by_type" -> Some("forecastTimestamps")
      [] m = "get_station_historical_observations" -> Some("observations")
      [] OTHER -> None

\* response.raise_for_status() raises for a 4xx or 5xx status.
Statuses == {200, 404, 429, 500}
raise_for_status(status) == 400 <= status /\ status < 600
HTTPError(status) == [exc |-> "HTTPError", status |-> status]

\* The bodies the server may send for one date's observations: one
\* observation, an empty list, no observations, a list that is not all
\* records.
ObservationsBody(d) ==
    JDict(<< <<"station", JDict(<< <<"code", JStr("x")>> >>)>>,
             <<"observations",
               JList(<< JDict(<< <<"observationTimeUtc", JStr(isoformat(d))>>,
                                 <<"v", JNum(d)>> >>) >>)>> >>)
ServerBodies(d) ==
    {ObservationsBody(d),
     JList(<<>>),
     JDict(<< <<"observations", JList(<<>>)>> >>),
     JDict(<< <<"observations", JList(<<RecA, JNum(7)>>)>> >>)}

Hours == {0, 23}
DateTimes == (1..MaxDay) \X Hours
\* A mis-rounding date(): the time of day leaks into the day.
date_rounded(dt) == IF dt[2] >= 12 THEN dt[1] + 1 ELSE dt[1]

\* datetime.date(): the day without the time of day.
date(dt) == dt[1]

\* The loop test with the end date excluded.
InRange_Exclusive(cur, end) == cur < date(end)

\* while current_date <= end_date.date()
InRange(cur, end) == cur <= date(end)

Init ==
    /\ op = "http"
    /\ pc = "start"
    /\ method \in SingleShotMethods \cup {RangeMethod}
    /\ IF method = RangeMethod
       THEN start_date \in DateTimes /\ end_date \in DateTimes
       ELSE start_date = <<0, 0>> /\ end_date = <<0, 0>>
    /\ time_zone = Some(Vilnius)
    /\ current_date = 0
    /\ all_dfs = <<>>
    /\ events = <<>>
    /\ fetched = <<>>
    /\ budget429 = Max429
    /\ json_data = JNull
    /\ record_path = None
    /\ rp = None
    /\ meta = JDict(<<>>)
    /\ df = EmptyFrame
    /\ result = NoResult

JsonUnchanged == UNCHANGED <<op, json_data, record_path, time_zone, rp, meta, df>>

\* The bodies a single-shot call may receive.
ForecastBody ==
    JDict(<< <<"forecastCreationTimeUtc", JStr("2024-01-03 00:00:00")>>,
             <<"forecastTimestamps",
               JList(<< JDict(<< <<"forecastTimeUtc", JStr("2024-01-02")>> >>),
                        JDict(<< <<"forecastTimeUtc", JStr("2024-01-01")>> >>) >>)>> >>)
SingleBodies == ServerBodies(1) \cup {ForecastBody, JList(<<RecA, RecB>>), JNull}

Get(url) == <<"GET", url>>
Resp(status) == <<"resp", status>>
ParseJson == <<"json">>
Sleep(ms) == <<"sleep", ms>>

(* ---- the single-shot methods ---- *)

\* response = self.session.get(...)
SingleRequest ==
    /\ pc = "start"
    /\ method \in SingleShotMethods
    /\ events' = Append(events, Get(Url(method, "latest")))
    /\ pc' = "await"
    /\ UNCHANGED <<method, start_date, end_date, current_date, all_dfs,
                   fetched, budget429, result>>
    /\ JsonUnchanged

\* raise_for_status() passes; return self._json_to_dataframe(response.json(), ...)
SingleOk ==
    /\ pc = "await"
    /\ method \in SingleShotMethods
    /\ \E status \in Statuses, body \in SingleBodies :
        /\ ~raise_for_status(status)
        /\ events' = events \o <<Resp(status), ParseJson>>
        /\ \E t \in json_to_dataframe(body, RecordPathOf(method), time_zone) :
            /\ result' = t
            /\ pc' = IF IsRaised(t) THEN "raised" ELSE "done"
    /\ UNCHANGED <<method, start_date, end_date, current_date, all_dfs,
                   fetched, budget429>>
    /\ JsonUnchanged

\* raise_for_status() raises
SingleHttpError ==
    /\ pc = "await"
    /\ method \in SingleShotMethods
    /\ \E status \in Statuses :
        /\ raise_for_status(status)
        /\ events' = Append(events, Resp(status))
        /\ result' = HTTPError(status)
        /\ pc' = "raised"
    /\ UNCHANGED <<method, start_date, end_date, current_date, all_dfs,
                   fetched, budget429>>
    /\ JsonUnchanged

(* ---- get_station_historical_observations_range ---- *)

\* all_dfs = []; current_date = start_date.date()
RangeEnter ==
    /\ pc = "start"
    /\ method = RangeMethod
    /\ all_dfs' = <<>>
    /\ current_date' = date(start_date)
    /\ pc' = "loop"
    /\ UNCHANGED <<method, start_date, end_date, events, fetched, budget429,
                   result>>
    /\ JsonUnchanged

\* while current_date <= end_date.date(): ... self.session.get(...) for
\* date=current_date.isoformat()
RangeRequest ==
    /\ pc = "loop"
    /\ InRange(current_date, end_date)
    /\ events' = Append(events,
                        Get(Url("get_station_historical_observations",
                                isoformat(current_date))))
    /\ pc' = "await"
    /\ UNCHANGED <<method, start_date, end_date, current_date, all_dfs,
                   fetched, budget429, result>>
    /\ JsonUnchanged

\* The fetch with the emptiness test dropped: every table is appended.
RangeFetched_AppendAlways ==
    /\ pc = "await"
    /\ method = RangeMethod
    /\ \E status \in Statuses, body \in ServerBodies(current_date) :
        /\ ~raise_for_status(status)
        /\ events' = events \o <<Resp(status), ParseJson>>
        /\ \E t \in json_to_dataframe(body, Some("observations"), time_zone) :
            IF IsRaised(t)
            THEN /\ result' = t
                 /\ pc' = "raised"
                 /\ UNCHANGED <<all_dfs, fetched>>
            ELSE /\ fetched' = Append(fetched, [date |-> current_date, table |-> t])
                 /\ all_dfs' = Append(all_dfs, t)
                 /\ pc' = "pause"
                 /\ result' = result
    /\ UNCHANGED <<method, start_date, end_date, current_date, budget429>>
    /\ JsonUnchanged

\* The fetch returns a table: if not df_observations.empty: append.  An
\* exception of a pandas call is no HTTPError and propagates.
RangeFetched ==
    /\ pc = "await"
    /\ method = RangeMethod
    /\ \E status \in Statuses, body \in ServerBodies(current_date) :
        /\ ~raise_for_status(status)
        /\ events' = events \o <<Resp(status), ParseJson>>
        /\ \E t \in json_to_dataframe(body, Some("observations"), time_zone) :
            IF IsRaised(t)
            THEN /\ result' = t
                 /\ pc' = "raised"
                 /\ UNCHANGED <<all_dfs, fetched>>
            ELSE /\ fetched' = Append(fetched, [date |-> current_date, table |-> t])
                 /\ all_dfs' = IF ~IsEmpty(t) THEN Append(all_dfs, t) ELSE all_dfs
                 /\ pc' = "pause"
                 /\ result' = result
    /\ UNCHANGED <<method, start_date, end_date, current_date, budget429>>
    /\ JsonUnchanged

\* The 429 branch with the date advanced before the retry.
RangeRateLimited_Advance ==
    /\ pc = "await"
    /\ method = RangeMethod
    /\ budget429 > 0
    /\ raise_for_status(RateLimited)
    /\ events' = Append(events, Resp(RateLimited))
    /\ budget429' = budget429 - 1
    /\ current_date' = current_date + 1
    /\ pc' = "backoff"
    /\ UNCHANGED <<method, start_date, end_date, all_dfs, fetched, result>>
    /\ JsonUnchanged

\* except HTTPError as e: if e.response.status_code == 429
RangeRateLimited ==
    /\ pc = "await"
    /\ method = RangeMethod
    /\ budget429 > 0
    /\ raise_for_status(RateLimited)
    /\ events' = Append(events, Resp(RateLimited))
    /\ budget429' = budget429 - 1
    /\ pc' = "backoff"
    /\ UNCHANGED <<method, start_date, end_date, current_date, all_dfs,
                   fetched, result>>
    /\ JsonUnchanged

\* The back-off without its continue: the 0.15 s pause follows it.
RangeBackoff_Double ==
    /\ pc = "backoff"
    /\ events' = events \o <<Sleep(BackoffMs), Sleep(PauseMs)>>
    /\ pc' = "loop"
    /\ UNCHANGED <<method, start_date, end_date, current_date, all_dfs,
                   fetched, budget429, result>>
    /\ JsonUnchanged

\* time.sleep(5); continue
RangeBackoff ==
    /\ pc = "backoff"
    /\ events' = Append(events, Sleep(BackoffMs))
    /\ pc' = "loop"
    /\ UNCHANGED <<method, start_date, end_date, current_date, all_dfs,
                   fetched, budget429, result>>
    /\ JsonUnchanged

\* The except branch without its raise: any HTTP error is slept on and the
\* loop goes on with the next date.
RangeHttpError_Swallow ==
    /\ pc = "await"
    /\ method = RangeMethod
    /\ \E status \in Statuses :
        /\ raise_for_status(status)
        /\ status # RateLimited
        /\ events' = Append(events, Resp(status))
        /\ result' = result
        /\ pc' = "pause"
    /\ UNCHANGED <<method, start_date, end_date, current_date, all_dfs,
                   fetched, budget429>>
    /\ JsonUnchanged

\* except HTTPError as e: ... raise
RangeHttpError ==
    /\ pc = "await"
    /\ method = RangeMethod
    /\ \E status \in Statuses :
        /\ raise_for_status(status)
        /\ status # RateLimited
        /\ events' = Append(events, Resp(status))
        /\ result' = HTTPError(status)
        /\ pc' = "raised"
    /\ UNCHANGED <<method, start_date, end_date, current_date, all_dfs,
                   fetched, budget429>>
    /\ JsonUnchanged

\* time.sleep(0.15); current_date += timedelta(days=1)
RangePause ==
    /\ pc = "pause"
    /\ events' = Append(events, Sleep(PauseMs))
    /\ current_date' = current_date + 1
    /\ pc' = "loop"
    /\ UNCHANGED <<method, start_date, end_date, all_dfs, fetched, budget429,
                   result>>
    /\ JsonUnchanged

\* return pd.concat(all_dfs) if all_dfs else pd.DataFrame()
RangeReturn ==
    /\ pc = "loop"
    /\ ~InRange(current_date, end_date)
    /\ result' = IF all_dfs # <<>> THEN concat(all_dfs) ELSE EmptyFrame
    /\ pc' = "done"
    /\ UNCHANGED <<method, start_date, end_date, current_date, all_dfs,
                   events, fetched, budget429>>
    /\ JsonUnchanged

Next ==
    \/ SingleRequest
    \/ SingleOk
    \/ SingleHttpError
    \/ RangeEnter
    \/ RangeRequest
    \/ RangeFetched
    \/ RangeRateLimited
    \/ RangeBackoff
    \/ RangeHttpError
    \/ RangePause
    \/ RangeReturn

Spec == Init /\ [][Next]_vars

\* The helper is a sequential program: it keeps running, and every request
\* is answered.
FairSpec == Init /\ [][Next]_vars /\ WF_vars(Next)

-----------------------------------------------------------------------------
(* Properties of the range helper and the single-shot methods.              *)

IsGet(e) == e[1] = "GET"
IsSleep(e) == e[1] = "sleep"
IsResp(e) == e[1] = "resp"
GetAt == {i \in DOMAIN events : IsGet(events[i])}
Count429 == Cardinality({i \in DOMAIN events : events[i] = <<"resp", 429>>})
InRangeCall == method = RangeMethod
Returned == pc = "done"
\* Days of the inclusive range start_date.date() .. end_date.date().
DaysInRange ==
    IF end_date[1] >= start_date[1] THEN end_date[1] - start_date[1] + 1 ELSE 0
\* The request the helper makes for day d.
DayRequest(d) == <<"GET", <<"stations", StationCode, "observations", DayTexts[d]>> >>

\* C1: when the range helper returns, the dates fetched successfully are
\* exactly start_date.date() .. end_date.date(), each once, in ascending
\* order, whatever the times of day; current_date is one past the last date
\* fetched successfully, so it advances only after that date's fetch
\* succeeded.
C1_DatesOnceAscending ==
    InRangeCall =>
        /\ \A i \in DOMAIN fetched : fetched[i].date = start_date[1] + i - 1
        /\ Returned => Len(fetched) = DaysInRange
        /\ pc \in {"loop", "await", "backoff", "done"} =>
              current_date = start_date[1] + Len(fetched)
        /\ pc = "pause" => current_date = start_date[1] + Len(fetched) - 1

\* C1 witness: a two-day range whose start has the later time of day,
\* returned after a 429 retry.
C1_Witness ==
    /\ InRangeCall /\ Returned
    /\ Len(fetched) = 2
    /\ start_date[2] > end_date[2]
    /\ Count429 >= 1

\* C2 (state part): after a 429 the helper backs off and the next request it
\* issues is for the same date as the request that got the 429, however
\* many 429s came before.
C2_NextRequestSameDate ==
    InRangeCall =>
        \A i \in DOMAIN events : events[i] = <<"resp", 429>> =>
            /\ i = Len(events) => pc = "backoff"
            /\ i + 2 <= Len(events) => events[i + 2] = events[i - 1]
            /\ IsGet(events[i - 1])

\* C2 (step part): the step that receives a 429, and the back-off after it,
\* leave the date and the accumulated tables as they are.
C2_NoAdvanceNoAppend ==
    (InRangeCall /\ (pc' = "backoff" \/ pc = "backoff")) =>
        /\ current_date' = current_date
        /\ all_dfs' = all_dfs
        /\ fetched' = fetched

\* C2: a 429 on the current date neither advances the date nor appends a
\* table, and the next request is for the same date, for every consecutive
\* 429.
C2_RetryOn429 == [](C2_NextRequestSameDate) /\ [][C2_NoAdvanceNoAppend]_vars

\* C2 witness: two consecutive 429s on one date, each followed by a request
\* for that date.
C2_Witness ==
    /\ InRangeCall
    /\ \E i \in DOMAIN events :
        /\ i + 6 <= Len(events)
        /\ IsGet(events[i])
        /\ events[i + 1] = <<"resp", 429>>
        /\ events[i + 3] = events[i]
        /\ events[i + 4] = <<"resp", 429>>
        /\ events[i + 6] = events[i]

\* C3: in the range helper an HTTP error other than 429 ends the call at
\* once: it is the last event, the call raised that error and returns no
\* table.  A single-shot method issues exactly one GET, and an error status
\* (429 included) raises before the body is parsed, with no retry.
C3_OnlyRetryOn429 ==
    /\ InRangeCall =>
          \A i \in DOMAIN events :
              (IsResp(events[i]) /\ events[i][2] >= 400 /\ events[i][2] # 429) =>
                  /\ i = Len(events)
                  /\ pc = "raised"
                  /\ result = [exc |-> "HTTPError", status |-> events[i][2]]
    /\ method \in SingleShotMethods =>
          /\ Cardinality(GetAt) <= 1
          /\ pc # "start" => Cardinality(GetAt) = 1
          /\ \A i \in DOMAIN events :
                (IsResp(events[i]) /\ events[i][2] >= 400) =>
                    /\ i = Len(events)
                    /\ pc = "raised"
                    /\ result = [exc |-> "HTTPError", status |-> events[i][2]]
                    /\ \A j \in DOMAIN events : events[j] # <<"json">>

\* C3 witness: the range helper raised a 500 after an earlier date had been
\* fetched and its table accumulated.
C3_Witness ==
    /\ InRangeCall
    /\ pc = "raised"
    /\ result = [exc |-> "HTTPError", status |-> 500]
    /\ Len(all_dfs) >= 1

\* C4: between two consecutive requests of the range helper there is exactly
\* one sleep: 5 s when the earlier request got a 429, 0.15 s when it
\* succeeded.
C4_OneSleepBetweenRequests ==
    InRangeCall =>
        \A i, j \in GetAt :
            (i < j /\ \A k \in (i + 1)..(j - 1) : k \notin GetAt) =>
                LET sleeps == {k \in (i + 1)..(j - 1) : IsSleep(events[k])}
                IN  /\ Cardinality(sleeps) = 1
                    /\ \A k \in sleeps :
                          events[k] = IF events[i + 1] = <<"resp", 429>>
                                      THEN <<"sleep", 5000>>
                                      ELSE <<"sleep", 150>>

\* C4 witness: a request answered 429, the 5 s back-off, the retry answered
\* with a table, the 0.15 s pause, and the next date's request.
C4_Witness ==
    /\ InRangeCall
    /\ Len(events) >= 8
    /\ SubSeq(events, 1, 8) =
          << DayRequest(1), <<"resp", 429>>, <<"sleep", 5000>>,
             DayRequest(1), <<"resp", 200>>, <<"json">>, <<"sleep", 150>>,
             DayRequest(2) >>

\* C6 (count part): a call that returned issued one request per date of the
\* range plus one per 429 received.
C6_RequestCount ==
    (InRangeCall /\ Returned) => Cardinality(GetAt) = DaysInRange + Count429

\* C6: with finitely many 429 answers the range helper eventually returns or
\* raises, and when it returns it has issued (dates in range) + (429s)
\* requests.
C6_Terminates ==
    /\ InRangeCall => <>(pc \in {"done", "raised"})
    /\ [](C6_RequestCount)

\* C6 witness: a returned call over two dates that met two 429s.
C6_Witness ==
    /\ InRangeCall /\ Returned
    /\ DaysInRange = 2
    /\ Count429 = 2
    /\ Cardinality(GetAt) = 4

NonEmptyTable(t) == Len(t.cols) > 0 /\ Len(t.index) > 0
FetchedTables == [i \in DOMAIN fetched |-> fetched[i].table]

\* C7: the tables accumulated are the non-empty per-date tables in date
\* order, each once; the helper returns their concatenation, an empty table
\* when there is none, and for start_date.date() > end_date.date() it issues
\* no request, does not sleep and returns an empty table.
C7_ConcatOfNonEmpty ==
    InRangeCall =>
        /\ all_dfs = SelectSeq(FetchedTables, NonEmptyTable)
        /\ Returned =>
              /\ result = IF SelectSeq(FetchedTables, NonEmptyTable) = <<>>
                          THEN EmptyFrame
                          ELSE concat(SelectSeq(FetchedTables, NonEmptyTable))
              /\ Len(result.index) = Len(ConcatIndex(all_dfs, 1))
              /\ start_date[1] > end_date[1] =>
                    (events = <<>> /\ result = EmptyFrame)

\* C7 witness: a returned call whose first date gave an empty table and
\* whose second date, retried after a 429, gave a non-empty one.
C7_Witness ==
    /\ InRangeCall /\ Returned
    /\ Len(fetched) = 2
    /\ ~NonEmptyTable(fetched[1].table)
    /\ NonEmptyTable(fetched[2].table)
    /\ Len(all_dfs) = 1
    /\ Count429 >= 1
    /\ result = fetched[2].table

-----------------------------------------------------------------------------
(* Properties of the JSON-to-table normalisation.                           *)

JsonDone == op = "json_to_dataframe" /\ pc = "done"

\* A non-empty list all of whose items are dicts.
ListOfDicts(v) ==
    /\ IsList(v)
    /\ Len(Items(v)) > 0
    /\ \A i \in DOMAIN Items(v) : IsDict(Items(v)[i])

\* C5: _json_to_dataframe dispatches on the body: a list gives the table of
\* the list; a dict in which a record path is found gives a table (no
\* exception) of that path's records with the flattened metadata,
\* timestamp-indexed; a dict with no record path gives the one-row table of
\* the dict; any other body gives an empty table.
C5_Dispatch ==
    JsonDone =>
        LET found == find_record_path(json_data, record_path)
        IN  /\ IsList(json_data) => result = DataFrameOfList(Items(json_data))
            /\ (IsDict(json_data) /\ found # None) =>
                  LET t == NormalizedFrame(json_data, found[1])
                  IN  /\ ~IsRaised(result)
                      /\ ~IsRaised(t)
                      /\ result \in set_timestamp_index(t, time_zone)
            /\ (IsDict(json_data) /\ found = None) =>
                  result = DataFrameOfDict(json_data)
            /\ (~IsList(json_data) /\ ~IsDict(json_data)) => result = EmptyFrame

\* C8: _find_record_path returns record_path when it names a non-empty list
\* of dicts; otherwise the first key whose value is a non-empty list of
\* dicts, None when there is none; a key it returns always names a non-empty
\* list of dicts.
C8_FindRecordPath ==
    (op = "json_to_dataframe" /\ pc = "found") =>
        LET Valid(k) == HasKey(json_data, k) /\ ListOfDicts(DictGet(json_data, k))
            cands == {i \in DOMAIN Items(json_data) :
                         ListOfDicts(Items(json_data)[i][2])}
            given == record_path # None /\ Valid(record_path[1])
        IN  /\ given => rp = record_path
            /\ ~given =>
                  rp = IF cands = {} THEN None
                       ELSE Some(Items(json_data)[
                               CHOOSE i \in cands : \A j \in cands : i <= j][1])
            /\ rp # None => Valid(rp[1])

\* C9: _flatten_meta leaves out the record_path key, carries every sub-key
\* of a dict-valued top-level key as meta_{key}_{subkey} with its value, and
\* carries every other top-level key with its value.
C9_FlattenMeta ==
    (op = "json_to_dataframe" /\ pc = "flat") =>
        /\ ~HasKey(meta, rp[1])
        /\ \A i \in DOMAIN Items(json_data) :
              LET key == Items(json_data)[i][1]
                  val == Items(json_data)[i][2]
              IN  key # rp[1] =>
                    IF IsDict(val)
                    THEN \A j \in DOMAIN Items(val) :
                            LET name == "meta_" \o key \o "_" \o Items(val)[j][1]
                            IN  /\ HasKey(meta, name)
                                /\ DictGet(meta, name) = Items(val)[j][2]
                    ELSE /\ HasKey(meta, key)
                         /\ DictGet(meta, key) = val

TsDone == op = "set_timestamp_index" /\ pc = "done"
FirstTimeColumn == SelectSeq(df.cols, EndsWithTimeUtc)[1]
IsTimestamp(cell) ==
    \/ cell = <<"NaT">>
    \/ /\ cell[1] = "ts"
       /\ cell[3] = IF time_zone = None THEN "UTC" ELSE time_zone[1]

\* Everything C10 says of a table with a time column except the order of
\* its rows: the first time column is the index, named "timestamp", and no
\* longer a column; the other columns stay, in their order; every time
\* column is converted; the rows are those of the input.
C10_Indexed ==
    LET first == FirstTimeColumn
        Keep(c) == c # first
        n == Len(df.rows)
    IN  /\ result.iname = <<"timestamp">>
        /\ result.cols = SelectSeq(df.cols, Keep)
        /\ Len(result.index) = n /\ Len(result.rows) = n
        /\ \A i \in 1..n :
              /\ IsTimestamp(result.index[i])
              /\ \A c \in Range(result.cols) :
                    EndsWithTimeUtc(c) => IsTimestamp(result.rows[i][c])
        /\ \E p \in [1..n -> 1..n] :
              /\ \A i, j \in 1..n : i # j => p[i] # p[j]
              /\ \A i \in 1..n :
                    /\ result.index[i] = ConvertCell(df.rows[p[i]][first], time_zone)
                    /\ \A c \in Range(result.cols) :
                          result.rows[i][c] =
                              IF EndsWithTimeUtc(c)
                              THEN ConvertCell(df.rows[p[i]][c], time_zone)
                              ELSE df.rows[p[i]][c]

====
